---- MODULE Spec2Model ----
(***************************************************************************)
(* fprime.fbuild.settings: IniSettings.load, IniSettings.read_safe_path,   *)
(* IniSettings.find_fprime and IniSettings.load_environment.               *)
(*                                                                         *)
(* Strings are sequences of tokens: a token is a path separator "/", the   *)
(* list separator ":", or a whole path component / word ("a", "..",        *)
(* "settings.ini", "native").  Paths on disk are such strings in absolute, *)
(* normalized form ("/" is <<"/">>, "/a/b" is <<"/", "a", "/", "b">>).     *)
(* A settings file is a sequence of lines [sec, key, val] with no          *)
(* [DEFAULT] section and no interpolation markers.                         *)
(***************************************************************************)
EXTENDS Integers, Sequences, FiniteSets, TLC

VARIABLES
    exists,           \* paths os.path.exists answers True for (the settings file apart)
    markers,          \* directories d for which d/cmake/FPrime.cmake is a file
    cwd,              \* the process's current working directory
    arg,              \* load's settings_file argument: <<>> is None, <<p>> a path
    present,          \* whether the resolved settings file exists on disk
    text,             \* the lines of the settings file
    envText,          \* the lines of the separate environment file, once it is read
    pc,               \* load's position
    settings_file,    \* load's local settings_file after .resolve()
    confparse,        \* the parser filled by confparse.read
    fprime_location,  \* load's locals; <<>> is None / not yet assigned
    proj_root,
    ac_consts,
    config_dir,
    install_dest,
    env_file,
    libraries,
    environment,
    result,           \* what load returned or raised
    warned,           \* the [WARNING] line was printed
    searched          \* number of find_fprime calls made by this load

vars == <<exists, markers, cwd, arg, present, text, envText, pc, settings_file,
          confparse, fprime_location, proj_root, ac_consts, config_dir,
          install_dest, env_file, libraries, environment, result, warned, searched>>

----------------------------------------------------------------------------
(* Bounds of the model *)

\* depth of the directory tree the discovery scenarios range over
MaxDepth == 2
\* number of marker files placed in the tree
MaxMarkers == 2
\* number of colon-separated entries in one path-list value
MaxEntries == 2
\* number of lines in a settings file / environment file of the multi-line scenarios
MaxLines == 2

Names == {"a", "b"}

----------------------------------------------------------------------------
(* String helpers: str.split, str.join *)

RECURSIVE SplitAcc(_, _, _, _)
SplitAcc(s, sep, cur, out) ==
    IF s = <<>> THEN Append(out, cur)
    ELSE IF Head(s) = sep THEN SplitAcc(Tail(s), sep, <<>>, Append(out, cur))
    ELSE SplitAcc(Tail(s), sep, Append(cur, Head(s)), out)

\* s.split(sep): "" gives [""], "a:" gives ["a", ""]
Split(s, sep) == SplitAcc(s, sep, <<>>, <<>>)

RECURSIVE JoinWith(_, _)
\* sep.join(parts)
JoinWith(parts, sep) ==
    IF parts = <<>> THEN <<>>
    ELSE IF Len(parts) = 1 THEN parts[1]
    ELSE parts[1] \o <<sep>> \o JoinWith(Tail(parts), sep)

----------------------------------------------------------------------------
(* posixpath as used by read_safe_path and load *)

isabs(p) == p # <<>> /\ Head(p) = "/"

\* os.path.join(a, p)
join(a, p) ==
    IF isabs(p) THEN p
    ELSE IF a = <<>> \/ a[Len(a)] = "/" THEN a \o p
    ELSE a \o <<"/">> \o p

RECURSIVE NormComps(_, _, _)
\* the component loop of os.path.normpath
NormComps(comps, initial_slashes, new_comps) ==
    IF comps = <<>> THEN new_comps
    ELSE LET comp == Head(comps) IN
         IF comp = <<>> \/ comp = <<".">>
             THEN NormComps(Tail(comps), initial_slashes, new_comps)
         ELSE IF \/ comp # <<"..">>
                 \/ (~initial_slashes /\ new_comps = <<>>)
                 \/ (new_comps # <<>> /\ new_comps[Len(new_comps)] = <<"..">>)
             THEN NormComps(Tail(comps), initial_slashes, Append(new_comps, comp))
         ELSE IF new_comps # <<>>
             THEN NormComps(Tail(comps), initial_slashes, SubSeq(new_comps, 1, Len(new_comps) - 1))
         ELSE NormComps(Tail(comps), initial_slashes, new_comps)

\* os.path.normpath(path); no value of the model starts with exactly two slashes
normpath(path) ==
    IF path = <<>> THEN <<".">>
    ELSE LET initial_slashes == isabs(path)
             joined == JoinWith(NormComps(Split(path, "/"), initial_slashes, <<>>), "/")
             out == IF initial_slashes THEN <<"/">> \o joined ELSE joined
         IN IF out = <<>> THEN <<".">> ELSE out

\* os.path.abspath(path)
abspath(path) == IF isabs(path) THEN normpath(path) ELSE normpath(join(cwd, path))

RECURSIVE rstripSlash(_)
rstripSlash(s) == IF s # <<>> /\ s[Len(s)] = "/" THEN rstripSlash(SubSeq(s, 1, Len(s) - 1)) ELSE s

RECURSIVE rfindSlash(_)
\* p.rfind("/") + 1
rfindSlash(p) == IF p = <<>> THEN 0 ELSE IF p[Len(p)] = "/" THEN Len(p) ELSE rfindSlash(SubSeq(p, 1, Len(p) - 1))

\* os.path.dirname(p), also Path.parent of an absolute normalized path
dirname(p) ==
    LET head == SubSeq(p, 1, rfindSlash(p))
    IN IF head # <<>> /\ \E i \in 1..Len(head) : head[i] # "/" THEN rstripSlash(head) ELSE head

\* Path(d, name) for an absolute normalized d
child(d, name) == join(d, <<name>>)

----------------------------------------------------------------------------
(* configparser as used by load and load_environment *)

\* str.lower on the option names that occur in the model
Lower(k) ==
    CASE k = "Project_Root" -> "project_root"
      [] k = "DEFAULT_TOOLCHAIN" -> "default_toolchain"
      [] k = "Path" -> "path"
      [] OTHER -> k

\* mutant: the environment parser folds option names like the default parser
optionxform_Lower(k, case_sensitive) == Lower(k)

\* ConfigParser.optionxform: str.lower by default, str when case_sensitive
optionxform(k, case_sensitive) == IF case_sensitive THEN k ELSE Lower(k)

\* the options ConfigParser.read stores for the lines of a file
ReadLines(lines, case_sensitive) ==
    [i \in 1..Len(lines) |->
        [sec |-> lines[i].sec, key |-> optionxform(lines[i].key, case_sensitive), val |-> lines[i].val]]

\* strict parsers raise DuplicateOptionError when a section repeats an option
HasDuplicate(opts) ==
    \E i, j \in 1..Len(opts) : i < j /\ opts[i].sec = opts[j].sec /\ opts[i].key = opts[j].key

has_option(parser, section, key) ==
    \E i \in 1..Len(parser) : parser[i].sec = section /\ parser[i].key = key

\* mutant: the fallback is dropped, a missing option reads as the empty string
get_NoFallback(parser, section, key, fallback) ==
    IF has_option(parser, section, key)
    THEN LET i == CHOOSE i \in 1..Len(parser) : parser[i].sec = section /\ parser[i].key = key
         IN parser[i].val
    ELSE <<>>

\* parser.get(section, key, fallback=fallback)
get(parser, section, key, fallback) ==
    IF has_option(parser, section, key)
    THEN LET i == CHOOSE i \in 1..Len(parser) : parser[i].sec = section /\ parser[i].key = key
         IN parser[i].val
    ELSE fallback

\* dict(parser.items(section)), {} when the section is missing
items(parser, section) ==
    LET keys == {parser[i].key : i \in {j \in 1..Len(parser) : parser[j].sec = section}}
    IN [k \in keys |-> get(parser, section, k, <<>>)]

----------------------------------------------------------------------------
(* IniSettings.find_fprime *)

NotFound == [found |-> FALSE, path |-> <<>>]

RECURSIVE find_fprime(_)
\* called with cwd.resolve(); path.parent of "/" is "/"
find_fprime(path) ==
    IF path = dirname(path) THEN NotFound
    ELSE IF path \in markers THEN [found |-> TRUE, path |-> path]
    ELSE find_fprime(dirname(path))

----------------------------------------------------------------------------
(* IniSettings.read_safe_path *)

RECURSIVE ExpandPaths(_, _, _, _)
\* the loop over all_paths; ok = FALSE is the raise of FprimeSettingsException
ExpandPaths(all_paths, base_dir, mustExist, expanded) ==
    IF all_paths = <<>> THEN [ok |-> TRUE, paths |-> expanded]
    ELSE LET path == Head(all_paths) IN
         IF path = <<>> THEN ExpandPaths(Tail(all_paths), base_dir, mustExist, expanded)
         ELSE LET full_path == abspath(normpath(join(base_dir, path))) IN
              IF mustExist /\ full_path \notin exists THEN [ok |-> FALSE, paths |-> <<>>]
              ELSE ExpandPaths(Tail(all_paths), base_dir, mustExist, Append(expanded, full_path))

\* mutant: the existence check is skipped
read_safe_path_Unchecked(parser, section, key, ini_file, mustExist) ==
    ExpandPaths(Split(get(parser, section, key, <<>>), ":"), dirname(ini_file), FALSE, <<>>)

\* mutant: the existence check ignores exists=False
read_safe_path_AlwaysChecked(parser, section, key, ini_file, mustExist) ==
    ExpandPaths(Split(get(parser, section, key, <<>>), ":"), dirname(ini_file), TRUE, <<>>)

\* mutant: only the first entry is kept
read_safe_path_First(parser, section, key, ini_file, mustExist) ==
    LET r == ExpandPaths(Split(get(parser, section, key, <<>>), ":"), dirname(ini_file), mustExist, <<>>)
    IN [ok |-> r.ok, paths |-> IF r.paths = <<>> THEN <<>> ELSE <<r.paths[1]>>]

\* mutant: relative entries are anchored at the working directory
read_safe_path_Cwd(parser, section, key, ini_file, mustExist) ==
    ExpandPaths(Split(get(parser, section, key, <<>>), ":"), cwd, mustExist, <<>>)

read_safe_path(parser, section, key, ini_file, mustExist) ==
    LET base_dir == dirname(ini_file)
        all_paths == Split(get(parser, section, key, <<>>), ":")
    IN ExpandPaths(all_paths, base_dir, mustExist, <<>>)

----------------------------------------------------------------------------
(* IniSettings.load *)

None == <<>>
Some(x) == <<x>>
EmptyDict == [k \in {} |-> <<>>]

Str(w) == <<w>>

DEF_FILE == "settings.ini"

\* Path.resolve() of a path in a tree without symbolic links
resolve(p) == abspath(p)

\* a raise that leaves load
Raise(kind) ==
    /\ pc' = "done"
    /\ result' = [kind |-> kind, settings |-> EmptyDict]

\* a return of load
Return(settings) ==
    /\ pc' = "done"
    /\ result' = [kind |-> "ok", settings |-> settings]

Resolved == resolve(IF arg = None THEN child(cwd, DEF_FILE) ELSE arg[1])

dfl_install_dest == child(dirname(settings_file), "build-artifacts")

\* mutant: a missing settings file is an error
LoadMissing_Strict ==
    /\ pc = "load"
    /\ ~present
    /\ settings_file' = Resolved
    /\ Raise("FileNotFoundError")
    /\ UNCHANGED <<exists, markers, cwd, arg, present, text, envText, confparse,
                   fprime_location, proj_root, ac_consts, config_dir, install_dest,
                   env_file, libraries, environment, warned, searched>>

\* lines 77-88: the settings file does not exist
LoadMissing ==
    /\ pc = "load"
    /\ ~present
    /\ settings_file' = Resolved
    /\ warned' = TRUE
    /\ searched' = searched + 1
    /\ LET found == find_fprime(dirname(Resolved)) IN
       IF found.found
       THEN Return([k \in {"framework_path", "install_dest"} |->
                       IF k = "framework_path" THEN found.path
                       ELSE child(dirname(Resolved), "build-artifacts")])
       ELSE Raise("FprimeLocationUnknownException")
    /\ UNCHANGED <<exists, markers, cwd, arg, present, text, envText, confparse,
                   fprime_location, proj_root, ac_consts, config_dir, install_dest,
                   env_file, libraries, environment>>

\* lines 77-90: the settings file exists and is read
LoadRead ==
    /\ pc = "load"
    /\ present
    /\ settings_file' = Resolved
    /\ LET opts == ReadLines(text, FALSE) IN
       IF HasDuplicate(opts)
       THEN Raise("DuplicateOptionError") /\ UNCHANGED confparse
       ELSE confparse' = opts /\ pc' = "framework_path" /\ UNCHANGED result
    /\ UNCHANGED <<exists, markers, cwd, arg, present, text, envText,
                   fprime_location, proj_root, ac_consts, config_dir, install_dest,
                   env_file, libraries, environment, warned, searched>>

\* mutant: the last framework_path entry is taken instead of the first
ReadFrameworkPath_Last ==
    /\ pc = "framework_path"
    /\ LET r == read_safe_path(confparse, "fprime", "framework_path", settings_file, TRUE) IN
       IF ~r.ok
       THEN Raise("FprimeSettingsException") /\ UNCHANGED <<fprime_location, searched>>
       ELSE IF r.paths # <<>>
       THEN /\ fprime_location' = Some(r.paths[Len(r.paths)])
            /\ pc' = "project_root"
            /\ UNCHANGED <<result, searched>>
       ELSE /\ searched' = searched + 1
            /\ LET found == find_fprime(dirname(settings_file)) IN
               IF found.found
               THEN fprime_location' = Some(found.path) /\ pc' = "project_root" /\ UNCHANGED result
               ELSE Raise("FprimeLocationUnknownException") /\ UNCHANGED fprime_location
    /\ UNCHANGED <<exists, markers, cwd, arg, present, text, envText, settings_file, confparse,
                   proj_root, ac_consts, config_dir, install_dest,
                   env_file, libraries, environment, warned>>

\* lines 92-99
ReadFrameworkPath ==
    /\ pc = "framework_path"
    /\ LET r == read_safe_path(confparse, "fprime", "framework_path", settings_file, TRUE) IN
       IF ~r.ok
       THEN Raise("FprimeSettingsException") /\ UNCHANGED <<fprime_location, searched>>
       ELSE IF r.paths # <<>>
       THEN /\ fprime_location' = Some(r.paths[1])
            /\ pc' = "project_root"
            /\ UNCHANGED <<result, searched>>
       ELSE /\ searched' = searched + 1
            /\ LET found == find_fprime(dirname(settings_file)) IN
               IF found.found
               THEN fprime_location' = Some(found.path) /\ pc' = "project_root" /\ UNCHANGED result
               ELSE Raise("FprimeLocationUnknownException") /\ UNCHANGED fprime_location
    /\ UNCHANGED <<exists, markers, cwd, arg, present, text, envText, settings_file, confparse,
                   proj_root, ac_consts, config_dir, install_dest,
                   env_file, libraries, environment, warned>>

\* lines 102-105
ReadProjectRoot ==
    /\ pc = "project_root"
    /\ LET r == read_safe_path(confparse, "fprime", "project_root", settings_file, TRUE) IN
       IF ~r.ok
       THEN Raise("FprimeSettingsException") /\ UNCHANGED proj_root
       ELSE /\ proj_root' = IF r.paths # <<>> THEN Some(r.paths[1]) ELSE None
            /\ pc' = "ac_constants"
            /\ UNCHANGED result
    /\ UNCHANGED <<exists, markers, cwd, arg, present, text, envText, settings_file, confparse,
                   fprime_location, ac_consts, config_dir, install_dest,
                   env_file, libraries, environment, warned, searched>>

\* lines 107-110
ReadAcConstants ==
    /\ pc = "ac_constants"
    /\ LET r == read_safe_path(confparse, "fprime", "ac_constants", settings_file, TRUE) IN
       IF ~r.ok
       THEN Raise("FprimeSettingsException") /\ UNCHANGED ac_consts
       ELSE /\ ac_consts' = IF r.paths # <<>> THEN Some(r.paths[1]) ELSE None
            /\ pc' = "config_directory"
            /\ UNCHANGED result
    /\ UNCHANGED <<exists, markers, cwd, arg, present, text, envText, settings_file, confparse,
                   fprime_location, proj_root, config_dir, install_dest,
                   env_file, libraries, environment, warned, searched>>

\* lines 112-115
ReadConfigDir ==
    /\ pc = "config_directory"
    /\ LET r == read_safe_path(confparse, "fprime", "config_directory", settings_file, TRUE) IN
       IF ~r.ok
       THEN Raise("FprimeSettingsException") /\ UNCHANGED config_dir
       ELSE /\ config_dir' = IF r.paths # <<>> THEN Some(r.paths[1]) ELSE None
            /\ pc' = "install_dest"
            /\ UNCHANGED result
    /\ UNCHANGED <<exists, markers, cwd, arg, present, text, envText, settings_file, confparse,
                   fprime_location, proj_root, ac_consts, install_dest,
                   env_file, libraries, environment, warned, searched>>

\* lines 117-121
ReadInstallDest ==
    /\ pc = "install_dest"
    /\ LET r == read_safe_path(confparse, "fprime", "install_dest", settings_file, FALSE) IN
       IF ~r.ok
       THEN Raise("FprimeSettingsException") /\ UNCHANGED install_dest
       ELSE /\ install_dest' = IF r.paths # <<>> THEN Some(r.paths[1]) ELSE Some(dfl_install_dest)
            /\ pc' = "environment_file"
            /\ UNCHANGED result
    /\ UNCHANGED <<exists, markers, cwd, arg, present, text, envText, settings_file, confparse,
                   fprime_location, proj_root, ac_consts, config_dir,
                   env_file, libraries, environment, warned, searched>>

\* lines 123-126
ReadEnvironmentFile ==
    /\ pc = "environment_file"
    /\ LET r == read_safe_path(confparse, "fprime", "environment_file", settings_file, TRUE) IN
       IF ~r.ok
       THEN Raise("FprimeSettingsException") /\ UNCHANGED env_file
       ELSE /\ env_file' = IF r.paths # <<>> THEN Some(r.paths[1]) ELSE Some(settings_file)
            /\ pc' = "library_locations"
            /\ UNCHANGED result
    /\ UNCHANGED <<exists, markers, cwd, arg, present, text, envText, settings_file, confparse,
                   fprime_location, proj_root, ac_consts, config_dir, install_dest,
                   libraries, environment, warned, searched>>

\* lines 127-129
ReadLibraryLocations ==
    /\ pc = "library_locations"
    /\ LET r == read_safe_path(confparse, "fprime", "library_locations", settings_file, TRUE) IN
       IF ~r.ok
       THEN Raise("FprimeSettingsException") /\ UNCHANGED libraries
       ELSE /\ libraries' = r.paths
            /\ pc' = "load_environment"
            /\ UNCHANGED result
    /\ UNCHANGED <<exists, markers, cwd, arg, present, text, envText, settings_file, confparse,
                   fprime_location, proj_root, ac_consts, config_dir, install_dest,
                   env_file, environment, warned, searched>>

\* the tree's regular files are the ones named env.ini; every other path is a directory
IsFile(p) == p # <<>> /\ p[Len(p)] = "env.ini"

\* the files an environment_file target may hold
EnvLines ==
    {[sec |-> "environment", key |-> k, val |-> Str(w)] : k \in {"Path", "path"}, w \in {"x", "y"}}

SeqsUpTo(S, n) == UNION {[1..m -> S] : m \in 0..n}

EnvFiles == SeqsUpTo(EnvLines, MaxLines)

\* line 130 and lines 160-177 (load_environment); parser.read skips what it cannot open
LoadEnvironment ==
    /\ pc = "load_environment"
    /\ \E t \in (IF env_file[1] = settings_file THEN {envText}
                 ELSE IF IsFile(env_file[1]) THEN EnvFiles ELSE {<<>>}) :
          /\ envText' = t
          /\ LET lines == IF env_file[1] = settings_file THEN text ELSE t
                 parser == ReadLines(lines, TRUE)
             IN IF HasDuplicate(parser)
                THEN Raise("DuplicateOptionError") /\ UNCHANGED environment
                ELSE /\ environment' = items(parser, "environment")
                     /\ pc' = "settings"
                     /\ UNCHANGED result
    /\ UNCHANGED <<exists, markers, cwd, arg, present, text, settings_file, confparse,
                   fprime_location, proj_root, ac_consts, config_dir, install_dest,
                   env_file, libraries, warned, searched>>

RequiredKeys ==
    {"settings_file", "framework_path", "library_locations", "default_toolchain",
     "default_ut_toolchain", "install_dest", "environment_file", "environment",
     "component_cookiecutter"}

\* mutant: an unset optional key is stored as None instead of left out
Optional_Always(key, value) == key :> (IF value # None THEN value[1] ELSE None)

Optional(key, value) == IF value # None THEN key :> value[1] ELSE EmptyDict

\* lines 132-158
BuildSettings ==
    /\ pc = "settings"
    /\ LET settings ==
             [k \in RequiredKeys |->
                CASE k = "settings_file" -> settings_file
                  [] k = "framework_path" -> fprime_location[1]
                  [] k = "library_locations" -> libraries
                  [] k = "default_toolchain" ->
                        get(confparse, "fprime", "default_toolchain", Str("native"))
                  [] k = "default_ut_toolchain" ->
                        get(confparse, "fprime", "default_ut_toolchain", Str("native"))
                  [] k = "install_dest" -> install_dest[1]
                  [] k = "environment_file" -> env_file[1]
                  [] k = "environment" -> environment
                  [] k = "component_cookiecutter" ->
                        get(confparse, "fprime", "component_cookiecutter", Str("default"))]
       IN Return(settings @@ Optional("project_root", proj_root)
                          @@ Optional("ac_constants", ac_consts)
                          @@ Optional("config_dir", config_dir))
    /\ UNCHANGED <<exists, markers, cwd, arg, present, text, envText, settings_file, confparse,
                   fprime_location, proj_root, ac_consts, config_dir, install_dest,
                   env_file, libraries, environment, warned, searched>>

----------------------------------------------------------------------------
(* The inputs: directory trees, settings files *)

Root == <<"/">>

RECURSIVE DirsUpTo(_)
\* the directories of depth at most n
DirsUpTo(n) ==
    IF n = 0 THEN {Root}
    ELSE LET up == DirsUpTo(n - 1) IN up \cup {child(d, nm) : d \in up, nm \in Names}

RECURSIVE Ancestors(_)
\* d and every directory above it
Ancestors(d) == IF d = dirname(d) THEN {d} ELSE {d} \cup Ancestors(dirname(d))

Closure(S) == {Root} \cup UNION {Ancestors(d) : d \in S}

SubsetsUpTo(S, n) == {m \in SUBSET S : Cardinality(m) <= n}

\* a fixed deployment tree: /, /a, /a/a, /a/env.ini, /b, with the framework at /a
SampleDirs == {Root, <<"/", "a">>, <<"/", "a", "/", "a">>, <<"/", "b">>}
SampleTree == SampleDirs \cup {<<"/", "a", "/", "env.ini">>}
SampleMarkers == {<<"/", "a">>}

\* path strings: "", a, .., ../b, ./a/.., /a, env.ini
PathTexts ==
    {<<>>, <<"a">>, <<"..">>, <<"..", "/", "b">>, <<".", "/", "a", "/", "..">>,
     <<"/", "a">>, <<"env.ini">>}

RECURSIVE PathLists(_)
\* the colon-joined lists of one to n path strings
PathLists(n) ==
    IF n <= 1 THEN PathTexts
    ELSE LET less == PathLists(n - 1) IN less \cup {v \o <<":">> \o t : v \in less, t \in PathTexts}

PathKeys ==
    {"framework_path", "project_root", "ac_constants", "config_directory", "config_dir",
     "install_dest", "environment_file", "library_locations"}

PathLines == {[sec |-> "fprime", key |-> k, val |-> v] : k \in PathKeys, v \in PathLists(MaxEntries)}

SimpleLines ==
    {[sec |-> "fprime", key |-> k, val |-> Str(w)] :
        k \in {"default_toolchain", "DEFAULT_TOOLCHAIN", "default_ut_toolchain"},
        w \in {"custom1", "custom2"}}
    \cup {[sec |-> "fprime", key |-> "component_cookiecutter", val |-> <<"gh", ":", "x">>],
          [sec |-> "fprime", key |-> "default_toolchain", val |-> <<>>],
          [sec |-> "fprime", key |-> "environment_file", val |-> Str("env.ini")]}
    \cup {[sec |-> "fprime", key |-> k, val |-> Str("a")] :
            k \in {"project_root", "Project_Root", "config_directory", "config_dir"}}
    \cup EnvLines

NoResult == [kind |-> "none", settings |-> EmptyDict]

InitLocals ==
    /\ pc = "load"
    /\ envText = <<>>
    /\ settings_file = None
    /\ confparse = <<>>
    /\ fprime_location = None
    /\ proj_root = None
    /\ ac_consts = None
    /\ config_dir = None
    /\ install_dest = None
    /\ env_file = None
    /\ libraries = <<>>
    /\ environment = EmptyDict
    /\ result = NoResult
    /\ warned = FALSE
    /\ searched = 0

\* any tree, any starting directory, markers anywhere; the file absent or empty
InitDiscover ==
    \E sdir \in DirsUpTo(MaxDepth), m \in SubsetsUpTo(DirsUpTo(MaxDepth), MaxMarkers),
       pr \in BOOLEAN, byDefault \in BOOLEAN :
        /\ markers = m
        /\ present = pr
        /\ text = <<>>
        /\ arg = IF byDefault THEN None ELSE Some(child(sdir, DEF_FILE))
        /\ cwd = IF byDefault THEN sdir ELSE Root
        /\ exists = Closure(m \cup (IF pr \/ byDefault THEN {sdir} ELSE {}))

\* the fixed tree, a settings file of one path-valued line
InitPaths ==
    \E sdir \in SampleDirs, l \in PathLines :
        /\ markers = SampleMarkers
        /\ exists = SampleTree
        /\ present = TRUE
        /\ text = <<l>>
        /\ arg = Some(child(sdir, DEF_FILE))
        /\ cwd = Root

\* the fixed tree, a settings file of several short lines
InitLines ==
    \E sdir \in {<<"/", "a">>, <<"/", "a", "/", "a">>}, t \in SeqsUpTo(SimpleLines, MaxLines) :
        /\ markers = SampleMarkers
        /\ exists = SampleTree
        /\ present = TRUE
        /\ text = t
        /\ arg = Some(child(sdir, DEF_FILE))
        /\ cwd = Root

Init == InitLocals /\ (InitDiscover \/ InitPaths \/ InitLines)

Next ==
    \/ LoadMissing
    \/ LoadRead
    \/ ReadFrameworkPath
    \/ ReadProjectRoot
    \/ ReadAcConstants
    \/ ReadConfigDir
    \/ ReadInstallDest
    \/ ReadEnvironmentFile
    \/ ReadLibraryLocations
    \/ LoadEnvironment
    \/ BuildSettings

Spec == Init /\ [][Next]_vars

----------------------------------------------------------------------------
(* Reference notions used by the properties *)

Done == pc = "done"
Ok == result.kind = "ok"
\* the settings file was read without a parser error
Parsed == present /\ pc # "load" /\ ~(Done /\ result.kind = "DuplicateOptionError" /\ env_file = None)

SettingsDir == dirname(settings_file)

NonEmpty(s) == s # <<>>

\* the components of a path string
Components(p) == SelectSeq(Split(p, "/"), NonEmpty)

RECURSIVE Walk(_, _)
\* follow the components from a directory given as a stack of names
Walk(stack, comps) ==
    IF comps = <<>> THEN stack
    ELSE IF Head(comps) = <<".">> THEN Walk(stack, Tail(comps))
    ELSE IF Head(comps) = <<"..">>
        THEN Walk(IF stack = <<>> THEN stack ELSE SubSeq(stack, 1, Len(stack) - 1), Tail(comps))
    ELSE Walk(Append(stack, Head(comps)), Tail(comps))

ToPath(stack) == <<"/">> \o JoinWith(stack, "/")

\* where a path string leads from a directory: an absolute string from the root
Anchored(dir, p) == ToPath(Walk(IF isabs(p) THEN <<>> ELSE Components(dir), Components(p)))

\* the [fprime] lines of the settings file that give the key, in any letter case
FprimeLinesOf(key) == {i \in 1..Len(text) : text[i].sec = "fprime" /\ Lower(text[i].key) = key}
Specified(key) == FprimeLinesOf(key) # {}
RawValue(key) == IF Specified(key) THEN text[CHOOSE i \in FprimeLinesOf(key) : TRUE].val ELSE <<>>
\* the non-empty colon-separated entries of the key's value
Entries(key) == SelectSeq(Split(RawValue(key), ":"), NonEmpty)
Targets(key) == [i \in 1..Len(Entries(key)) |-> Anchored(SettingsDir, Entries(key)[i])]
AllExist(key) == \A i \in 1..Len(Entries(key)) : Targets(key)[i] \in exists

\* the marked directories from a directory up to the root, the root included or not
MarkedAbove(start, withRoot) ==
    {d \in Ancestors(start) : d \in markers /\ (withRoot \/ d # Root)}
Nearest(S) == CHOOSE d \in S : \A e \in S : Len(e) <= Len(d)

\* the entry name of a directory
Under(dir, name) == ToPath(Append(Components(dir), Str(name)))

HasSettings(key) == Ok /\ key \in DOMAIN result.settings

----------------------------------------------------------------------------
(* Properties *)

\* what a finished or running load shows of its one find_fprime call
DiscoveryFailed == result.kind = "FprimeLocationUnknownException"
DiscoveryResult ==
    IF present THEN fprime_location
    ELSE IF Ok THEN Some(result.settings["framework_path"]) ELSE None

\* C2: find_fprime examines the start directory and every directory above it, the
\* filesystem root included, returns the nearest one that holds cmake/FPrime.cmake,
\* and raises FprimeLocationUnknownException exactly when none of them holds it.
C2_DiscoveryIncludesRoot ==
    searched = 1 =>
        LET hits == MarkedAbove(SettingsDir, TRUE) IN
        /\ DiscoveryFailed <=> hits = {}
        /\ hits # {} => DiscoveryResult = Some(Nearest(hits))

\* C4: when the settings file does not exist, load prints the warning, reads no
\* INI file and resolves no key; it returns exactly framework_path (the discovered
\* root) and install_dest (<parent>/build-artifacts) when discovery succeeds, and
\* raises nothing but the discovery's own error otherwise.
C4_MissingFile ==
    (~present /\ Done) =>
        /\ warned
        /\ searched = 1
        /\ confparse = <<>> /\ envText = <<>>
        /\ <<fprime_location, proj_root, ac_consts, config_dir, install_dest, env_file>>
              = <<None, None, None, None, None, None>>
        /\ libraries = <<>> /\ environment = EmptyDict
        /\ LET hits == MarkedAbove(SettingsDir, FALSE) IN
           IF hits # {}
           THEN /\ Ok
                /\ DOMAIN result.settings = {"framework_path", "install_dest"}
                /\ result.settings["framework_path"] = Nearest(hits)
                /\ result.settings["install_dest"] = Under(SettingsDir, "build-artifacts")
           ELSE DiscoveryFailed

\* C4 witness: an absent file in an absent directory, framework found above it
C4_Witness ==
    /\ ~present /\ Done /\ Ok /\ warned
    /\ SettingsDir \notin exists
    /\ result.settings["framework_path"] # SettingsDir


\* the keys whose targets read_safe_path validates, by the name the claim gives them
ClaimedValidated ==
    {"framework_path", "project_root", "ac_constants", "config_dir", "environment_file",
     "library_locations"}
\* the same keys by the option name load reads
ReadValidated ==
    {"framework_path", "project_root", "ac_constants", "config_directory", "environment_file",
     "library_locations"}

\* no explicit framework_path and nothing found by find_fprime
NoFramework == Entries("framework_path") = <<>> /\ MarkedAbove(SettingsDir, FALSE) = {}

\* C1 as stated: a config_dir, framework_path, project_root, ac_constants,
\* environment_file or library_locations entry whose target does not exist makes
\* load raise FprimeSettingsException.
C1_AsStated ==
    (Parsed /\ Done) =>
        \A key \in ClaimedValidated :
            ~AllExist(key) => result.kind = "FprimeSettingsException"

\* C1 amended: the option names are framework_path, project_root, ac_constants,
\* config_directory, environment_file and library_locations; a nonexistent target
\* under one of them makes load raise and return no mapping, the error being
\* FprimeSettingsException unless framework_path gives no entry and find_fprime
\* fails, in which case FprimeLocationUnknownException is raised first.
C1_NonexistentTargetFails ==
    (Parsed /\ Done) =>
        \A key \in ReadValidated :
            ~AllExist(key) =>
                /\ result.settings = EmptyDict
                /\ result.kind = IF NoFramework THEN "FprimeLocationUnknownException"
                                 ELSE "FprimeSettingsException"

\* C1 witness: a nonexistent config_directory target stopped the load
C1_Witness ==
    /\ Parsed /\ Done
    /\ ~AllExist("config_directory")
    /\ \A key \in ReadValidated \ {"config_directory"} : AllExist(key)
    /\ result.kind = "FprimeSettingsException"
    /\ fprime_location # None

OptionOf(key) == IF key = "config_dir" THEN "config_directory" ELSE key

\* C5 as stated: project_root, ac_constants and config_dir are in the result
\* exactly when the file gives an option of that same name a non-empty value, and
\* the value is then the first colon-separated entry, absolute and existing.
C5_AsStated ==
    (Parsed /\ Done /\ Ok) =>
        \A key \in {"project_root", "ac_constants", "config_dir"} :
            /\ HasSettings(key) <=> (Specified(key) /\ RawValue(key) # <<>>)
            /\ HasSettings(key) =>
                  /\ result.settings[key] = Anchored(SettingsDir, Split(RawValue(key), ":")[1])
                  /\ result.settings[key] \in exists

\* C5 amended: project_root and ac_constants are in the result exactly when the
\* file gives the option of that name at least one non-empty colon-separated
\* entry, config_dir exactly when it gives config_directory one; the value is the
\* first non-empty entry, absolute, normalized and existing.
C5_OptionalKeys ==
    (Parsed /\ Done /\ Ok) =>
        \A key \in {"project_root", "ac_constants", "config_dir"} :
            /\ HasSettings(key) <=> Entries(OptionOf(key)) # <<>>
            /\ HasSettings(key) =>
                  /\ result.settings[key] = Targets(OptionOf(key))[1]
                  /\ result.settings[key] \in exists

\* C5 witness: config_directory given, config_dir returned, project_root left out
C5_Witness ==
    /\ Parsed /\ Done /\ Ok
    /\ HasSettings("config_dir") /\ ~HasSettings("project_root")
    /\ Len(Split(RawValue("config_directory"), ":")) > 1

\* C6: with an explicit framework_path entry the first entry is used, validated,
\* and find_fprime is not called; without one the result of find_fprime from the
\* settings file's directory is used; FprimeLocationUnknownException is raised
\* exactly when there is no explicit entry and find_fprime finds nothing.
C6_FrameworkPath ==
    (Parsed /\ pc # "framework_path") =>
        /\ IF Entries("framework_path") # <<>>
           THEN /\ searched = 0
                /\ IF AllExist("framework_path")
                   THEN fprime_location = Some(Targets("framework_path")[1])
                   ELSE fprime_location = None /\ result.kind = "FprimeSettingsException"
           ELSE /\ searched = 1
                /\ LET hits == MarkedAbove(SettingsDir, FALSE) IN
                   IF hits # {} THEN fprime_location = Some(Nearest(hits))
                   ELSE fprime_location = None
        /\ DiscoveryFailed <=> NoFramework
        /\ Ok => result.settings["framework_path"] = fprime_location[1]

\* C6 witness: an explicit framework_path that is no marked directory is returned
C6_Witness ==
    /\ Parsed /\ Done /\ Ok /\ searched = 0
    /\ result.settings["framework_path"] \notin markers
    /\ MarkedAbove(SettingsDir, FALSE) # {}


\* the options whose value is a path list
PathOptions == ReadValidated \cup {"install_dest"}

StringValue(key, default) == IF Specified(key) THEN RawValue(key) ELSE Str(default)

\* C3: a settings file that gives no path option yields exactly the nine required
\* keys: the toolchains and the cookiecutter as written in the file or else
\* "native", "native", "default"; install_dest <settings_dir>/build-artifacts; no
\* library locations; the settings file as environment file; framework_path from
\* find_fprime (whose failure is the only error).
C3_Defaults ==
    (Parsed /\ Done /\ \A key \in PathOptions : ~Specified(key)) =>
        LET hits == MarkedAbove(SettingsDir, FALSE) IN
        IF hits = {} THEN DiscoveryFailed
        ELSE /\ Ok
             /\ DOMAIN result.settings = RequiredKeys
             /\ result.settings["default_toolchain"] = StringValue("default_toolchain", "native")
             /\ result.settings["default_ut_toolchain"] = StringValue("default_ut_toolchain", "native")
             /\ result.settings["component_cookiecutter"] = StringValue("component_cookiecutter", "default")
             /\ result.settings["install_dest"] = Under(SettingsDir, "build-artifacts")
             /\ result.settings["library_locations"] = <<>>
             /\ result.settings["environment_file"] = settings_file
             /\ result.settings["settings_file"] = settings_file
             /\ result.settings["framework_path"] = Nearest(hits)

\* C3 witness: both toolchains given, the cookiecutter left to its default
C3_Witness ==
    /\ Parsed /\ Done /\ Ok
    /\ \A key \in PathOptions : ~Specified(key)
    /\ result.settings["default_toolchain"] = Str("custom1")
    /\ result.settings["default_ut_toolchain"] = Str("custom2")
    /\ result.settings["component_cookiecutter"] = Str("default")

\* C7: library_locations is every non-empty colon-separated entry of the option,
\* in the order written, duplicates kept, each made absolute and each required to
\* exist; one nonexistent entry fails the load; no option gives the empty list.
C7_LibraryLocations ==
    /\ (Parsed /\ pc \in {"load_environment", "settings"}) =>
            /\ libraries = Targets("library_locations")
            /\ AllExist("library_locations")
    /\ (Parsed /\ Done) =>
            IF AllExist("library_locations")
            THEN Ok => result.settings["library_locations"] = Targets("library_locations")
            ELSE ~Ok /\ result.settings = EmptyDict

\* C7 witness: two different entries returned in the order written, second first in the tree
C7_Witness ==
    /\ Parsed /\ Done /\ Ok
    /\ Len(result.settings["library_locations"]) = MaxEntries
    /\ result.settings["library_locations"][1] = SettingsDir \o <<"/", "a">>
    /\ result.settings["library_locations"][MaxEntries] = dirname(SettingsDir)

\* C8: install_dest is never checked for existence: the result's install_dest is
\* the first non-empty entry anchored at the settings directory and normalized,
\* or <settings_dir>/build-artifacts without one, and a FprimeSettingsException
\* is always due to another option's nonexistent target.
C8_InstallDest ==
    /\ (Parsed /\ Done /\ Ok) =>
            result.settings["install_dest"] =
                IF Entries("install_dest") # <<>> THEN Targets("install_dest")[1]
                ELSE Under(SettingsDir, "build-artifacts")
    /\ (Parsed /\ Done /\ result.kind = "FprimeSettingsException") =>
            \E key \in ReadValidated : ~AllExist(key)
    /\ (Parsed /\ pc = "environment_file") =>
            install_dest = IF Entries("install_dest") # <<>> THEN Some(Targets("install_dest")[1])
                           ELSE Some(Under(SettingsDir, "build-artifacts"))

\* C8 witness: install_dest = ../b beside the settings directory, not on disk
C8_Witness ==
    /\ Parsed /\ Done /\ Ok
    /\ RawValue("install_dest") = <<"..", "/", "b">>
    /\ result.settings["install_dest"] = dirname(SettingsDir) \o <<"/", "b">>
    /\ result.settings["install_dest"] \notin exists

\* the lines the environment is read from
EnvironmentSource == IF Entries("environment_file") # <<>> THEN envText ELSE text
EnvironmentLinesOf(k) ==
    {i \in 1..Len(EnvironmentSource) :
        EnvironmentSource[i].sec = "environment" /\ EnvironmentSource[i].key = k}

IsPrefix(a, b) == Len(a) <= Len(b) /\ SubSeq(b, 1, Len(a)) = a

\* what load holds for an option once it has read it
Held(key) ==
    CASE key = "framework_path" -> IF Entries(key) # <<>> THEN fprime_location ELSE None
      [] key = "project_root" -> proj_root
      [] key = "ac_constants" -> ac_consts
      [] key = "config_directory" -> config_dir
      [] key = "install_dest" -> IF Entries(key) # <<>> THEN install_dest ELSE None
      [] key = "environment_file" -> IF Entries(key) # <<>> THEN env_file ELSE None
      [] key = "library_locations" -> libraries

\* C10: a relative entry resolves to the path it leads to from the settings file's
\* directory, "." and ".." followed, whatever the process's working directory; an
\* entry without ".." lies under the settings directory; an absolute entry
\* resolves to itself, normalized.
C10_Anchoring ==
    (Parsed /\ (pc = "settings" \/ (Done /\ Ok))) =>
        \A key \in PathOptions :
            /\ Len(Held(key)) = IF key = "library_locations" THEN Len(Entries(key))
                                ELSE IF Entries(key) # <<>> THEN 1 ELSE 0
            /\ \A i \in 1..Len(Held(key)) :
                  LET entry == Entries(key)[i] IN
                  /\ isabs(Held(key)[i])
                  /\ Held(key)[i] = ToPath(Walk(IF isabs(entry) THEN <<>> ELSE Components(SettingsDir),
                                                Components(entry)))
                  /\ (~isabs(entry) /\ \A j \in 1..Len(entry) : entry[j] # "..")
                        => IsPrefix(SettingsDir, Held(key)[i])
                  /\ (isabs(entry) /\ \A j \in 1..Len(entry) : entry[j] \notin {"..", "."})
                        => Held(key)[i] = entry

\* C10 witness: the entry a of a settings file in /a/a, read from working directory /
C10_Witness ==
    /\ Parsed /\ Done /\ Ok
    /\ cwd # SettingsDir
    /\ RawValue("install_dest") = <<"a">>
    /\ result.settings["install_dest"] = <<"/", "a", "/", "a", "/", "a">>

====
